---- MODULE Spec2Model ----
(***************************************************************************)
(* Attention state engine of the camera drowsiness detector (offscreen     *)
(* document, src/unnamed/part_000).  Times are Date.now() readings in      *)
(* milliseconds; thresholds are in seconds as in AttentionSettings; EAR    *)
(* values are in hundredths (0.20 is 20).                                  *)
(***************************************************************************)
EXTENDS Integers, Sequences, FiniteSets, TLC

VARIABLES
    eyesClosedStartTime,    \* <<>> for null, <<t>> for the timestamp t
    currentAttentionState,  \* "awake" | "drowsy" | "microsleep"
    closedFrameCount,
    isRunning,              \* detection session running
    stream,                 \* a camera MediaStream is held
    videoElement,           \* the hidden video element exists
    stopTracking,           \* the face tracker is running and its stop handle is held
    settings,               \* what getAttentionSettings() resolved to most recently
    clock,                  \* what Date.now() currently returns
    sent,                   \* chrome.runtime.sendMessage calls of the latest handleLandmarks run
    lastFrame,              \* the latest handleLandmarks run: its input, the engine state before it
                            \* and the closedDuration it computed
    streakAlerts,           \* alerts sent since the closure streak began, per state (2 stands for "several")
    inflight,               \* landmarks of the handleLandmarks calls awaiting getAttentionSettings(), oldest first
    cd,                     \* the module state of the content-script detector (cameraDetector.ts)
    cdSent,                 \* chrome.runtime.sendMessage calls of its latest handleLandmarks run
    starting,               \* calls of startDetection in progress, per await they are suspended at
    cdStarting,             \* calls of initCameraDetection in progress, per await they are suspended at
    live,                   \* camera streams acquired and not stopped, trackers started and not stopped, per host
    storage,                \* chrome.storage.local: key -> <<>> (nothing stored) or <<value>>
    lastMessage,            \* payload of the latest TRACKING_SETTINGS_UPDATED message, <<>> before the first
    cdInitFailed            \* some call of initCameraDetection has thrown

vars == <<eyesClosedStartTime, currentAttentionState, closedFrameCount,
          isRunning, stream, videoElement, stopTracking,
          settings, clock, sent, lastFrame, streakAlerts, inflight, cd, cdSent,
          starting, cdStarting, live, storage, lastMessage, cdInitFailed>>

engineVars == <<eyesClosedStartTime, currentAttentionState, closedFrameCount>>
sessionVars == <<isRunning, stream, videoElement, stopTracking>>
\* what the offscreen document never touches
lifeVars == <<starting, cdStarting, live, storage, lastMessage, cdInitFailed>>
hostVars == <<cd, cdSent, lifeVars>>

----------------------------------------------------------------------------
\* Bounds of the model

MaxClosed == 17        \* closedFrameCount is not driven beyond this
MaxClock == 3000       \* the clock is not advanced beyond this
ClockStarts == {1000}  \* Date.now() when the document loads
ClockSteps == {1000, 2000}   \* time that may pass between two events
IntraSteps == {1000}    \* time that may pass between the first and the later Date.now() reads of one run
EarPairs == {<<10, 10>>, <<10, 30>>, <<30, 30>>}  \* <<leftEyeEAR, rightEyeEAR>> of a detected face
EarThresholds == {20}
SecondsChoices == {<<1, 2>>, <<1, 1>>}  \* <<drowsySeconds, microsleepSeconds>>

----------------------------------------------------------------------------
\* Program constants and types

MIN_CLOSED_FRAMES == 15
MsPerSecond == 1000

Null == <<>>
AttentionStates == {"awake", "drowsy", "microsleep"}

AttentionSettingsValues ==
    { [enabled |-> en,
       detectors |-> [drowsiness |-> dr, microsleep |-> mi],
       thresholds |-> [earThreshold |-> th, drowsySeconds |-> sc[1],
                       microsleepSeconds |-> sc[2]]] :
        en \in BOOLEAN, dr \in BOOLEAN, mi \in BOOLEAN,
        th \in EarThresholds, sc \in SecondsChoices }

\* FaceLandmarks | null
LandmarksValues ==
    {Null} \cup { [leftEyeEAR |-> p[1], rightEyeEAR |-> p[2]] : p \in EarPairs }

\* the successive Date.now() readings of one synchronous run: the first is the
\* clock, the later ones are all equal to it or all later by the same amount
ReadingsFrom(t) ==
    { [i \in 1..4 |-> t] } \cup
    { [i \in 1..4 |-> IF i = 1 THEN t ELSE t + d] : d \in IntraSteps }

\* closedDuration >= seconds, where closedDuration = (now - start) / 1000
DurationAtLeast(now, start, seconds) == (now - start) >= seconds * MsPerSecond

\* x ? a : b on a nullable number (null and 0 are falsy)
Truthy(x) == x # Null /\ x[1] # 0

\* An EAR is a JavaScript number: besides the hundredths, it may be NaN, which
\* is below nothing and not below anything (every comparison with it is false)
NaN == 0 - 1000000
Lt(a, b) == a # NaN /\ b # NaN /\ a < b
Le(a, b) == a # NaN /\ b # NaN /\ a <= b

\* mean of the two eyes, times 2 is l + r; readings are chosen so it is exact
computeAverageEAR(l, r) == IF l = NaN \/ r = NaN THEN NaN ELSE (l + r) \div 2

----------------------------------------------------------------------------
\* closedBranch without the debounce floor (latches on the first closed frame)
closedBranchNoDebounce(s, now, count, start) ==
    LET c == count + 1
        st == IF start = Null THEN <<now>> ELSE start
    IN  [closedFrameCount |-> c,
         eyesClosedStartTime |-> st,
         closedDuration |-> <<now - st[1]>>,
         state |->
            IF s.detectors.microsleep
               /\ DurationAtLeast(now, st[1], s.thresholds.microsleepSeconds)
            THEN "microsleep"
            ELSE IF s.detectors.drowsiness
                    /\ DurationAtLeast(now, st[1], s.thresholds.drowsySeconds)
                 THEN "drowsy"
                 ELSE "awake"]

\* closedBranch debouncing one frame longer: the threshold checks start on the
\* 16th closed frame
closedBranchLatchLate(s, now, count, start) ==
    LET c == count + 1
        st == IF c > MIN_CLOSED_FRAMES /\ start = Null THEN <<now>> ELSE start
    IN  [closedFrameCount |-> c,
         eyesClosedStartTime |-> st,
         closedDuration |-> IF c > MIN_CLOSED_FRAMES THEN <<now - st[1]>> ELSE Null,
         state |->
            IF c > MIN_CLOSED_FRAMES
            THEN IF s.detectors.microsleep
                    /\ DurationAtLeast(now, st[1], s.thresholds.microsleepSeconds)
                 THEN "microsleep"
                 ELSE IF s.detectors.drowsiness
                         /\ DurationAtLeast(now, st[1], s.thresholds.drowsySeconds)
                      THEN "drowsy"
                      ELSE "awake"
            ELSE "awake"]

\* closedBranch taking a new timestamp on every frame past the debounce
closedBranchRelatches(s, now, count, start) ==
    LET c == count + 1
        st == IF c >= MIN_CLOSED_FRAMES THEN <<now>> ELSE start
    IN  [closedFrameCount |-> c,
         eyesClosedStartTime |-> st,
         closedDuration |-> IF c >= MIN_CLOSED_FRAMES THEN <<now - st[1]>> ELSE Null,
         state |->
            IF c >= MIN_CLOSED_FRAMES
            THEN IF s.detectors.microsleep
                    /\ DurationAtLeast(now, st[1], s.thresholds.microsleepSeconds)
                 THEN "microsleep"
                 ELSE IF s.detectors.drowsiness
                         /\ DurationAtLeast(now, st[1], s.thresholds.drowsySeconds)
                      THEN "drowsy"
                      ELSE "awake"
            ELSE "awake"]

\* closedBranch checking the drowsy threshold before the microsleep one
closedBranchDrowsyFirst(s, now, count, start) ==
    LET c == count + 1
        st == IF c >= MIN_CLOSED_FRAMES /\ start = Null THEN <<now>> ELSE start
    IN  [closedFrameCount |-> c,
         eyesClosedStartTime |-> st,
         closedDuration |-> IF c >= MIN_CLOSED_FRAMES THEN <<now - st[1]>> ELSE Null,
         state |->
            IF c >= MIN_CLOSED_FRAMES
            THEN IF s.detectors.drowsiness
                    /\ DurationAtLeast(now, st[1], s.thresholds.drowsySeconds)
                 THEN "drowsy"
                 ELSE IF s.detectors.microsleep
                         /\ DurationAtLeast(now, st[1], s.thresholds.microsleepSeconds)
                      THEN "microsleep"
                      ELSE "awake"
            ELSE "awake"]

\* determineAttentionState for an EAR below the threshold: the new state
\* together with the counters it leaves and its local closedDuration (in
\* milliseconds, Null when not computed)
closedBranch(s, now, count, start) ==
    LET c == count + 1
        st == IF c >= MIN_CLOSED_FRAMES /\ start = Null THEN <<now>> ELSE start
    IN  [closedFrameCount |-> c,
         eyesClosedStartTime |-> st,
         closedDuration |-> IF c >= MIN_CLOSED_FRAMES THEN <<now - st[1]>> ELSE Null,
         state |->
            IF c >= MIN_CLOSED_FRAMES
            THEN IF s.detectors.microsleep
                    /\ DurationAtLeast(now, st[1], s.thresholds.microsleepSeconds)
                 THEN "microsleep"
                 ELSE IF s.detectors.drowsiness
                         /\ DurationAtLeast(now, st[1], s.thresholds.drowsySeconds)
                      THEN "drowsy"
                      ELSE "awake"
            ELSE "awake"]

\* determineAttentionState for an EAR not below the threshold
openBranch ==
    [closedFrameCount |-> 0, eyesClosedStartTime |-> Null, closedDuration |-> Null,
     state |-> "awake"]

\* determineAttentionState clearing the timestamp but not the frame count on an open frame
determineAttentionStateKeepsCount(ear, s, now, count, start) ==
    IF Lt(ear, s.thresholds.earThreshold)
    THEN closedBranch(s, now, count, start)
    ELSE [closedFrameCount |-> count, eyesClosedStartTime |-> Null, closedDuration |-> Null,
          state |-> "awake"]

\* determineAttentionState counting an EAR equal to the threshold as closed
determineAttentionStateClosedAtThreshold(ear, s, now, count, start) ==
    IF Le(ear, s.thresholds.earThreshold)
    THEN closedBranch(s, now, count, start)
    ELSE openBranch

determineAttentionState(ear, s, now, count, start) ==
    IF Lt(ear, s.thresholds.earThreshold)
    THEN closedBranch(s, now, count, start)
    ELSE openBranch

triggerDrowsinessAlert(state, confidence, duration) ==
    [type |-> "DROWSINESS_DETECTED", state |-> state, confidence |-> confidence,
     eyesClosedDuration |-> duration]

\* eyesClosedDuration of the payload, in milliseconds
sendAttentionUpdate(state, ear, start, tDur, tStamp) ==
    [type |-> "ATTENTION_UPDATE", state |-> state, confidence |-> <<85, 100>>,
     earValue |-> ear,
     eyesClosedDuration |-> IF Truthy(start) THEN tDur - start[1] ELSE 0,
     timestamp |-> tStamp]

\* the no-face branch alerting on every frame past a threshold, not only on a change
handleNoFaceAlertEveryFrame(s, r, count, start, state) ==
    LET c == count + 1
        st == IF c >= MIN_CLOSED_FRAMES /\ start = Null THEN <<r[1]>> ELSE start
        tDur == IF start = Null THEN r[2] ELSE r[1]
        micro == c >= MIN_CLOSED_FRAMES
                 /\ DurationAtLeast(tDur, st[1], s.thresholds.microsleepSeconds)
        drowsy == c >= MIN_CLOSED_FRAMES /\ ~micro
                  /\ DurationAtLeast(tDur, st[1], s.thresholds.drowsySeconds)
    IN  [closedFrameCount |-> c,
         eyesClosedStartTime |-> st,
         closedDuration |-> IF c >= MIN_CLOSED_FRAMES THEN <<tDur - st[1]>> ELSE Null,
         currentAttentionState |->
            IF micro THEN "microsleep" ELSE IF drowsy THEN "drowsy" ELSE state,
         sent |->
            IF micro
            THEN <<triggerDrowsinessAlert("microsleep", <<99, 100>>, tDur - st[1])>>
            ELSE IF drowsy
                 THEN <<triggerDrowsinessAlert("drowsy", <<94, 100>>, tDur - st[1])>>
                 ELSE <<>>]

\* The no-face branch of handleLandmarks
\* the no-face branch testing drowsySeconds before microsleepSeconds
handleNoFaceDrowsyFirst(s, r, count, start, state) ==
    LET c == count + 1
        st == IF c >= MIN_CLOSED_FRAMES /\ start = Null THEN <<r[1]>> ELSE start
        tDur == IF start = Null THEN r[2] ELSE r[1]
        drowsy == c >= MIN_CLOSED_FRAMES
                  /\ DurationAtLeast(tDur, st[1], s.thresholds.drowsySeconds)
        micro == c >= MIN_CLOSED_FRAMES /\ ~drowsy
                 /\ DurationAtLeast(tDur, st[1], s.thresholds.microsleepSeconds)
    IN  [closedFrameCount |-> c,
         eyesClosedStartTime |-> st,
         closedDuration |-> IF c >= MIN_CLOSED_FRAMES THEN <<tDur - st[1]>> ELSE Null,
         currentAttentionState |->
            IF drowsy THEN "drowsy" ELSE IF micro THEN "microsleep" ELSE state,
         sent |->
            IF drowsy /\ state # "drowsy"
            THEN <<triggerDrowsinessAlert("drowsy", <<94, 100>>, tDur - st[1])>>
            ELSE IF micro /\ state # "microsleep"
                 THEN <<triggerDrowsinessAlert("microsleep", <<99, 100>>, tDur - st[1])>>
                 ELSE <<>>]

handleNoFace(s, r, count, start, state) ==
    LET c == count + 1
        st == IF c >= MIN_CLOSED_FRAMES /\ start = Null THEN <<r[1]>> ELSE start
        tDur == IF start = Null THEN r[2] ELSE r[1]
        micro == c >= MIN_CLOSED_FRAMES
                 /\ DurationAtLeast(tDur, st[1], s.thresholds.microsleepSeconds)
        drowsy == c >= MIN_CLOSED_FRAMES /\ ~micro
                  /\ DurationAtLeast(tDur, st[1], s.thresholds.drowsySeconds)
    IN  [closedFrameCount |-> c,
         eyesClosedStartTime |-> st,
         closedDuration |-> IF c >= MIN_CLOSED_FRAMES THEN <<tDur - st[1]>> ELSE Null,
         currentAttentionState |->
            IF micro THEN "microsleep" ELSE IF drowsy THEN "drowsy" ELSE state,
         sent |->
            IF micro /\ state # "microsleep"
            THEN <<triggerDrowsinessAlert("microsleep", <<99, 100>>, tDur - st[1])>>
            ELSE IF drowsy /\ state # "drowsy"
                 THEN <<triggerDrowsinessAlert("drowsy", <<94, 100>>, tDur - st[1])>>
                 ELSE <<>>]

\* handleFace alerting on every elevated frame, not only when the state changes
handleFaceAlertEveryFrame(landmarks, s, r, count, start, state) ==
    LET ear == computeAverageEAR(landmarks.leftEyeEAR, landmarks.rightEyeEAR)
        d == determineAttentionState(ear, s, r[1], count, start)
        newState == d.state
        alert == IF newState \in {"drowsy", "microsleep"}
                 THEN <<triggerDrowsinessAlert(newState,
                            <<s.thresholds.earThreshold - ear, s.thresholds.earThreshold>>,
                            IF Truthy(d.eyesClosedStartTime)
                            THEN r[2] - d.eyesClosedStartTime[1] ELSE 0)>>
                 ELSE <<>>
    IN  [closedFrameCount |-> d.closedFrameCount,
         eyesClosedStartTime |-> d.eyesClosedStartTime,
         closedDuration |-> d.closedDuration,
         currentAttentionState |-> newState,
         sent |-> alert \o <<sendAttentionUpdate(newState, ear, d.eyesClosedStartTime,
                                                  r[3], r[4])>>]

\* The branch of handleLandmarks for a detected face
handleFace(landmarks, s, r, count, start, state) ==
    LET ear == computeAverageEAR(landmarks.leftEyeEAR, landmarks.rightEyeEAR)
        d == determineAttentionState(ear, s, r[1], count, start)
        newState == d.state
        alert == IF newState # state /\ newState \in {"drowsy", "microsleep"}
                 THEN <<triggerDrowsinessAlert(newState,
                            <<s.thresholds.earThreshold - ear, s.thresholds.earThreshold>>,
                            IF Truthy(d.eyesClosedStartTime)
                            THEN r[2] - d.eyesClosedStartTime[1] ELSE 0)>>
                 ELSE <<>>
    IN  [closedFrameCount |-> d.closedFrameCount,
         eyesClosedStartTime |-> d.eyesClosedStartTime,
         closedDuration |-> d.closedDuration,
         currentAttentionState |-> newState,
         sent |-> alert \o <<sendAttentionUpdate(newState, ear, d.eyesClosedStartTime,
                                                  r[3], r[4])>>]

\* handleLandmarks without the check of the master flag
handleLandmarksNoMasterCheck(landmarks, s, r, count, start, state) ==
    IF landmarks = Null
    THEN handleNoFace(s, r, count, start, state)
    ELSE handleFace(landmarks, s, r, count, start, state)

\* handleLandmarks from the point where the settings snapshot s has arrived
handleLandmarks(landmarks, s, r, count, start, state) ==
    IF ~s.enabled
    THEN [closedFrameCount |-> count, eyesClosedStartTime |-> start,
          closedDuration |-> Null, currentAttentionState |-> state, sent |-> <<>>]
    ELSE IF landmarks = Null
         THEN handleNoFace(s, r, count, start, state)
         ELSE handleFace(landmarks, s, r, count, start, state)

----------------------------------------------------------------------------
\* Bookkeeping of the alerts of the current closure streak
NoAlerts == [drowsy |-> 0, microsleep |-> 0]

Alerts(msgs) == SelectSeq(msgs, LAMBDA m : m.type = "DROWSINESS_DETECTED")
Updates(msgs) == SelectSeq(msgs, LAMBDA m : m.type = "ATTENTION_UPDATE")

CountAlerts(tally, msgs) ==
    LET Count(st) ==
            LET n == tally[st] + Len(SelectSeq(Alerts(msgs), LAMBDA m : m.state = st))
            IN  IF n > 2 THEN 2 ELSE n
    IN  [drowsy |-> Count("drowsy"), microsleep |-> Count("microsleep")]

----------------------------------------------------------------------------
\* the module state when the document has loaded
SETTINGS_KEY == "trackingSettings"
StorageKeys == {SETTINGS_KEY, "attentionSettings"}

\* cameraDetector.ts when the content script has loaded
InitHost ==
    /\ cd = [eyesClosedStartTime |-> Null, currentAttentionState |-> "awake",
             closedFrameCount |-> 0, isInitialized |-> FALSE, stream |-> FALSE,
             videoElement |-> FALSE, stopTracking |-> FALSE]
    /\ cdSent = <<>>
    /\ starting = [getUserMedia |-> 0, play |-> 0]
    /\ cdStarting = [getTrackingSettings |-> 0, getUserMedia |-> 0, play |-> 0, timeout |-> 0]
    /\ live = [streams |-> 0, trackers |-> 0, cdStreams |-> 0, cdTrackers |-> 0]
    /\ storage = [k \in StorageKeys |-> <<>>]
    /\ lastMessage = <<>>
    /\ cdInitFailed = FALSE

InitModule ==
    /\ eyesClosedStartTime = Null
    /\ currentAttentionState = "awake"
    /\ closedFrameCount = 0
    /\ isRunning = FALSE
    /\ stream = FALSE
    /\ videoElement = FALSE
    /\ stopTracking = FALSE

Init ==
    /\ InitModule
    /\ InitHost
    /\ settings \in AttentionSettingsValues
    /\ clock \in ClockStarts
    /\ sent = <<>>
    /\ lastFrame = <<>>
    /\ streakAlerts = NoAlerts
    /\ inflight = <<>>

\* handleLandmarks(landmarks) from the point where getAttentionSettings() has
\* resolved to s, to its end, with Date.now() returning the readings r
Apply(landmarks, s, r, after) ==
    /\ LET res == handleLandmarks(landmarks, s, r, closedFrameCount,
                                  eyesClosedStartTime, currentAttentionState)
       IN  /\ closedFrameCount' = res.closedFrameCount
           /\ eyesClosedStartTime' = res.eyesClosedStartTime
           /\ currentAttentionState' = res.currentAttentionState
           /\ sent' = res.sent
           /\ lastFrame' = <<[landmarks |-> landmarks,
                              closedFrameCount |-> closedFrameCount,
                              eyesClosedStartTime |-> eyesClosedStartTime,
                              currentAttentionState |-> currentAttentionState,
                              closedDuration |-> res.closedDuration,
                              inflight |-> inflight]>>
           /\ streakAlerts' = IF res.closedFrameCount = 0 THEN NoAlerts
                              ELSE CountAlerts(streakAlerts, res.sent)
    /\ settings' = s
    /\ clock' = after
    /\ UNCHANGED sessionVars

\* the same within the bounds of the model; the clock is left at the last
\* reading of the run
Process(landmarks, s, r) ==
    /\ r[4] <= MaxClock
    /\ handleLandmarks(landmarks, s, r, closedFrameCount, eyesClosedStartTime,
                       currentAttentionState).closedFrameCount <= MaxClosed
    /\ Apply(landmarks, s, r, IF s.enabled THEN r[4] ELSE clock)

\* One frame of the tracker: handleLandmarks(landmarks) run to completion, with
\* getAttentionSettings() resolving to s (the user may have saved other settings
\* since the previous frame) before anything else happens
Frame(landmarks, s, r) ==
    /\ stopTracking
    /\ Process(landmarks, s, r)
    /\ UNCHANGED <<inflight, hostVars>>

FaceFrame ==
    \E lm \in LandmarksValues \ {Null}, s \in AttentionSettingsValues,
       r \in ReadingsFrom(clock) : Frame(lm, s, r)

NoFaceFrame ==
    \E s \in AttentionSettingsValues, r \in ReadingsFrom(clock) : Frame(Null, s, r)

\* startDetection with the camera granted and the video playing
StartDetection ==
    /\ ~isRunning
    /\ stream' = TRUE
    /\ videoElement' = TRUE
    /\ stopTracking' = TRUE
    /\ isRunning' = TRUE
    /\ UNCHANGED <<engineVars, settings, clock, sent, lastFrame, streakAlerts, inflight, hostVars>>

\* stopDetection forgetting `closedFrameCount = 0`
StopDetectionKeepsCount ==
    /\ isRunning
    /\ stopTracking' = FALSE
    /\ stream' = FALSE
    /\ videoElement' = FALSE
    /\ isRunning' = FALSE
    /\ eyesClosedStartTime' = Null
    /\ currentAttentionState' = "awake"
    /\ streakAlerts' = NoAlerts
    /\ UNCHANGED <<closedFrameCount, settings, clock, sent, lastFrame, inflight, hostVars>>

\* stopDetection forgetting `currentAttentionState = "awake"`
StopDetectionKeepsState ==
    /\ isRunning
    /\ stopTracking' = FALSE
    /\ stream' = FALSE
    /\ videoElement' = FALSE
    /\ isRunning' = FALSE
    /\ eyesClosedStartTime' = Null
    /\ closedFrameCount' = 0
    /\ streakAlerts' = NoAlerts
    /\ UNCHANGED <<currentAttentionState, settings, clock, sent, lastFrame, inflight, hostVars>>

StopDetection ==
    /\ isRunning
    /\ stopTracking' = FALSE
    /\ stream' = FALSE
    /\ videoElement' = FALSE
    /\ isRunning' = FALSE
    /\ eyesClosedStartTime' = Null
    /\ currentAttentionState' = "awake"
    /\ closedFrameCount' = 0
    /\ streakAlerts' = NoAlerts
    /\ UNCHANGED <<settings, clock, sent, lastFrame, inflight, hostVars>>

\* time passes between two events
Tick ==
    /\ \E d \in ClockSteps : clock + d <= MaxClock /\ clock' = clock + d
    /\ UNCHANGED <<engineVars, sessionVars, settings, sent, lastFrame, streakAlerts, inflight, hostVars>>

\* the system clock is set back between two events (Date.now() is wall-clock time)
ClockSetBack ==
    /\ \E d \in ClockSteps, t \in ClockStarts : clock - d >= t /\ clock' = clock - d
    /\ UNCHANGED <<engineVars, sessionVars, settings, sent, lastFrame, streakAlerts, inflight, hostVars>>

Next ==
    \/ FaceFrame
    \/ NoFaceFrame
    \/ StartDetection
    \/ StopDetection
    \/ Tick
    \/ ClockSetBack

Spec == Init /\ [][Next]_vars

\* The same program while the user leaves the attention settings alone and the
\* system clock is never set back: every fetch resolves to the settings stored
\* at the start, and Date.now() is non-decreasing
FixedFaceFrame ==
    \E lm \in LandmarksValues \ {Null}, r \in ReadingsFrom(clock) : Frame(lm, settings, r)

FixedNoFaceFrame ==
    \E r \in ReadingsFrom(clock) : Frame(Null, settings, r)

NextFixed ==
    \/ FixedFaceFrame
    \/ FixedNoFaceFrame
    \/ StartDetection
    \/ StopDetection
    \/ Tick

SpecFixed == Init /\ [][NextFixed]_vars

\* The engine as cameraDetector.ts has it.  The functions below are those of
\* that file; n-th Date.now() of a run is r[n], as above.
cdTriggerDrowsinessAlert(state, confidence, duration) ==
    [type |-> "DROWSINESS_DETECTED", state |-> state, confidence |-> confidence,
     eyesClosedDuration |-> duration]

cdSendAttentionUpdate(state, ear, start, tDur, tStamp) ==
    [type |-> "ATTENTION_UPDATE", state |-> state, confidence |-> <<85, 100>>,
     earValue |-> ear,
     eyesClosedDuration |-> IF Truthy(start) THEN tDur - start[1] ELSE 0,
     timestamp |-> tStamp]

cdDetermineAttentionState(ear, s, now, count, start) ==
    IF Lt(ear, s.thresholds.earThreshold)
    THEN LET c == count + 1
             latched == c >= MIN_CLOSED_FRAMES
             st == IF latched /\ start = Null THEN <<now>> ELSE start
         IN  [closedFrameCount |-> c,
              eyesClosedStartTime |-> st,
              closedDuration |-> IF latched THEN <<now - st[1]>> ELSE Null,
              state |->
                 IF latched /\ s.detectors.microsleep
                    /\ DurationAtLeast(now, st[1], s.thresholds.microsleepSeconds)
                 THEN "microsleep"
                 ELSE IF latched /\ s.detectors.drowsiness
                         /\ DurationAtLeast(now, st[1], s.thresholds.drowsySeconds)
                      THEN "drowsy"
                      ELSE "awake"]
    ELSE [closedFrameCount |-> 0, eyesClosedStartTime |-> Null,
          closedDuration |-> Null, state |-> "awake"]

\* cameraDetector.ts with a no-face branch that reads settings.detectors
cdHandleLandmarksHonoursDetectors(landmarks, s, r, count, start, state) ==
    IF ~s.enabled
    THEN [closedFrameCount |-> count, eyesClosedStartTime |-> start,
          closedDuration |-> Null, currentAttentionState |-> state, sent |-> <<>>]
    ELSE IF landmarks = Null
    THEN LET c == count + 1
             latched == c >= MIN_CLOSED_FRAMES
             st == IF latched /\ start = Null THEN <<r[1]>> ELSE start
             tDur == IF start = Null THEN r[2] ELSE r[1]
             micro == latched /\ s.detectors.microsleep
                      /\ DurationAtLeast(tDur, st[1], s.thresholds.microsleepSeconds)
             drowsy == latched /\ ~micro /\ s.detectors.drowsiness
                       /\ DurationAtLeast(tDur, st[1], s.thresholds.drowsySeconds)
         IN  [closedFrameCount |-> c,
              eyesClosedStartTime |-> st,
              closedDuration |-> IF latched THEN <<tDur - st[1]>> ELSE Null,
              currentAttentionState |->
                 IF micro THEN "microsleep" ELSE IF drowsy THEN "drowsy" ELSE state,
              sent |->
                 IF micro /\ state # "microsleep"
                 THEN <<cdTriggerDrowsinessAlert("microsleep", <<99, 100>>, tDur - st[1])>>
                 ELSE IF drowsy /\ state # "drowsy"
                      THEN <<cdTriggerDrowsinessAlert("drowsy", <<94, 100>>, tDur - st[1])>>
                      ELSE <<>>]
    ELSE LET ear == computeAverageEAR(landmarks.leftEyeEAR, landmarks.rightEyeEAR)
             d == cdDetermineAttentionState(ear, s, r[1], count, start)
             alert == IF d.state # state /\ d.state \in {"drowsy", "microsleep"}
                      THEN <<cdTriggerDrowsinessAlert(d.state,
                                 <<s.thresholds.earThreshold - ear, s.thresholds.earThreshold>>,
                                 IF Truthy(d.eyesClosedStartTime)
                                 THEN r[2] - d.eyesClosedStartTime[1] ELSE 0)>>
                      ELSE <<>>
         IN  [closedFrameCount |-> d.closedFrameCount,
              eyesClosedStartTime |-> d.eyesClosedStartTime,
              closedDuration |-> d.closedDuration,
              currentAttentionState |-> d.state,
              sent |-> alert \o <<cdSendAttentionUpdate(d.state, ear, d.eyesClosedStartTime,
                                                        r[3], r[4])>>]

\* handleLandmarks of cameraDetector.ts from the point where the settings
\* snapshot s has arrived
cdHandleLandmarks(landmarks, s, r, count, start, state) ==
    IF ~s.enabled
    THEN [closedFrameCount |-> count, eyesClosedStartTime |-> start,
          closedDuration |-> Null, currentAttentionState |-> state, sent |-> <<>>]
    ELSE IF landmarks = Null
    THEN LET c == count + 1
             latched == c >= MIN_CLOSED_FRAMES
             st == IF latched /\ start = Null THEN <<r[1]>> ELSE start
             tDur == IF start = Null THEN r[2] ELSE r[1]
             micro == latched
                      /\ DurationAtLeast(tDur, st[1], s.thresholds.microsleepSeconds)
             drowsy == latched /\ ~micro
                       /\ DurationAtLeast(tDur, st[1], s.thresholds.drowsySeconds)
         IN  [closedFrameCount |-> c,
              eyesClosedStartTime |-> st,
              closedDuration |-> IF latched THEN <<tDur - st[1]>> ELSE Null,
              currentAttentionState |->
                 IF micro THEN "microsleep" ELSE IF drowsy THEN "drowsy" ELSE state,
              sent |->
                 IF micro /\ state # "microsleep"
                 THEN <<cdTriggerDrowsinessAlert("microsleep", <<99, 100>>, tDur - st[1])>>
                 ELSE IF drowsy /\ state # "drowsy"
                      THEN <<cdTriggerDrowsinessAlert("drowsy", <<94, 100>>, tDur - st[1])>>
                      ELSE <<>>]
    ELSE LET ear == computeAverageEAR(landmarks.leftEyeEAR, landmarks.rightEyeEAR)
             d == cdDetermineAttentionState(ear, s, r[1], count, start)
             alert == IF d.state # state /\ d.state \in {"drowsy", "microsleep"}
                      THEN <<cdTriggerDrowsinessAlert(d.state,
                                 <<s.thresholds.earThreshold - ear, s.thresholds.earThreshold>>,
                                 IF Truthy(d.eyesClosedStartTime)
                                 THEN r[2] - d.eyesClosedStartTime[1] ELSE 0)>>
                      ELSE <<>>
         IN  [closedFrameCount |-> d.closedFrameCount,
              eyesClosedStartTime |-> d.eyesClosedStartTime,
              closedDuration |-> d.closedDuration,
              currentAttentionState |-> d.state,
              sent |-> alert \o <<cdSendAttentionUpdate(d.state, ear, d.eyesClosedStartTime,
                                                        r[3], r[4])>>]

\* Both detectors side by side: each frame, with its settings snapshot and its
\* clock readings, is given to the offscreen document and to the content script
TwinFrame(landmarks, s, r) ==
    /\ stopTracking
    /\ Process(landmarks, s, r)
    /\ LET res == cdHandleLandmarks(landmarks, s, r, cd.closedFrameCount,
                                    cd.eyesClosedStartTime, cd.currentAttentionState)
       IN  /\ cd' = [cd EXCEPT !.closedFrameCount = res.closedFrameCount,
                               !.eyesClosedStartTime = res.eyesClosedStartTime,
                               !.currentAttentionState = res.currentAttentionState]
           /\ cdSent' = res.sent
    /\ UNCHANGED <<inflight, lifeVars>>

TwinFaceFrame ==
    \E lm \in LandmarksValues \ {Null}, s \in AttentionSettingsValues,
       r \in ReadingsFrom(clock) : TwinFrame(lm, s, r)

TwinNoFaceFrame ==
    \E s \in AttentionSettingsValues, r \in ReadingsFrom(clock) : TwinFrame(Null, s, r)

NextTwin ==
    \/ TwinFaceFrame
    \/ TwinNoFaceFrame
    \/ StartDetection
    \/ Tick
    \/ ClockSetBack

SpecTwin == Init /\ [][NextTwin]_vars

\* The lifecycle of the offscreen document with startDetection as the async
\* function it is: a call passes the isRunning check, then is suspended at
\* getUserMedia (line 190), then at videoElement.play() (line 206), and only
\* then starts the tracker and sets isRunning. Either await may reject.
MaxStarts == 2     \* calls of startDetection / initCameraDetection in progress at once
MaxLive == 3       \* camera streams a host has open at once

InProgress(calls) ==
    LET Sum(f, ks) == IF ks = {} THEN 0 ELSE
            LET RECURSIVE S(_)
                S(rest) == IF rest = {} THEN 0
                           ELSE LET k == CHOOSE x \in rest : TRUE
                                IN  f[k] + S(rest \ {k})
            IN  S(ks)
    IN  Sum(calls, DOMAIN calls)

\* START_CAMERA_DETECTION: startDetection up to `await getUserMedia`
StartDetectionCall ==
    /\ ~isRunning
    /\ InProgress(starting) < MaxStarts
    /\ live.streams + InProgress(starting) < MaxLive
    /\ starting' = [starting EXCEPT !.getUserMedia = @ + 1]
    /\ UNCHANGED <<engineVars, sessionVars, settings, clock, sent, lastFrame, streakAlerts,
                   inflight, cd, cdSent, cdStarting, live, storage, lastMessage, cdInitFailed>>

\* getUserMedia resolves: startCamera from line 190 to `await videoElement.play()`
GetUserMediaResolves ==
    /\ starting.getUserMedia > 0
    /\ starting' = [starting EXCEPT !.getUserMedia = @ - 1, !.play = @ + 1]
    /\ stream' = TRUE
    /\ videoElement' = TRUE
    /\ live' = [live EXCEPT !.streams = @ + 1]
    /\ UNCHANGED <<engineVars, isRunning, stopTracking, settings, clock, sent, lastFrame,
                   streakAlerts, inflight, cd, cdSent, cdStarting, storage, lastMessage,
                   cdInitFailed>>

\* getUserMedia rejects: startCamera and startDetection rethrow
GetUserMediaRejects ==
    /\ starting.getUserMedia > 0
    /\ starting' = [starting EXCEPT !.getUserMedia = @ - 1]
    /\ UNCHANGED <<engineVars, sessionVars, settings, clock, sent, lastFrame, streakAlerts,
                   inflight, cd, cdSent, cdStarting, live, storage, lastMessage, cdInitFailed>>

\* play() resolves: startDetection from line 246 to its end
PlayResolves ==
    /\ starting.play > 0
    /\ starting' = [starting EXCEPT !.play = @ - 1]
    /\ IF videoElement
       THEN /\ stopTracking' = TRUE
            /\ live' = [live EXCEPT !.trackers = @ + 1]
            /\ isRunning' = TRUE
       ELSE UNCHANGED <<stopTracking, live, isRunning>>      \* throws at line 247
    /\ UNCHANGED <<engineVars, stream, videoElement, settings, clock, sent, lastFrame,
                   streakAlerts, inflight, cd, cdSent, cdStarting, storage, lastMessage,
                   cdInitFailed>>

\* play() rejects: startCamera and startDetection rethrow
PlayRejects ==
    /\ starting.play > 0
    /\ starting' = [starting EXCEPT !.play = @ - 1]
    /\ UNCHANGED <<engineVars, sessionVars, settings, clock, sent, lastFrame, streakAlerts,
                   inflight, cd, cdSent, cdStarting, live, storage, lastMessage, cdInitFailed>>

\* STOP_CAMERA_DETECTION while running: stopDetection
StopDetectionCall ==
    /\ isRunning
    /\ stopTracking' = FALSE
    /\ stream' = FALSE
    /\ videoElement' = FALSE
    /\ isRunning' = FALSE
    /\ live' = [live EXCEPT !.trackers = IF stopTracking THEN @ - 1 ELSE @,
                            !.streams = IF stream THEN @ - 1 ELSE @]
    /\ eyesClosedStartTime' = Null
    /\ currentAttentionState' = "awake"
    /\ closedFrameCount' = 0
    /\ streakAlerts' = NoAlerts
    /\ UNCHANGED <<settings, clock, sent, lastFrame, inflight, cd, cdSent, starting,
                   cdStarting, storage, lastMessage, cdInitFailed>>

\* trackingSettings.ts over chrome.storage.local
TrackingSettingsValues == [webTrackingEnabled : BOOLEAN, cameraTrackingEnabled : BOOLEAN]
DEFAULT_SETTINGS == [webTrackingEnabled |-> TRUE, cameraTrackingEnabled |-> FALSE]

getTrackingSettings(store) ==
    IF store[SETTINGS_KEY] = <<>> THEN DEFAULT_SETTINGS ELSE store[SETTINGS_KEY][1]

\* saveTrackingSettings writing under another key than getTrackingSettings reads
saveTrackingSettingsOtherKey(store, s) == [store EXCEPT !["attentionSettings"] = <<s>>]

saveTrackingSettings(store, s) == [store EXCEPT ![SETTINGS_KEY] = <<s>>]

\* The lifecycle of the content-script detector. initCameraDetection passes
\* its isInitialized check, then is suspended in turn at getTrackingSettings
\* (line 265), getUserMedia (86), videoElement.play() (102) and the 2 s
\* timeout (290); isInitialized is set after the timeout only.
cdStopCamera(m) == [m EXCEPT !.stream = FALSE, !.videoElement = FALSE]

\* initCameraDetection up to `await getTrackingSettings()`
InitCameraDetectionCall ==
    /\ ~cd.isInitialized
    /\ InProgress(cdStarting) < MaxStarts
    /\ live.cdStreams + InProgress(cdStarting) < MaxLive
    /\ live.cdTrackers + InProgress(cdStarting) < MaxLive
    /\ cdStarting' = [cdStarting EXCEPT !.getTrackingSettings = @ + 1]

\* initCameraDetection reading the settings without looking at cameraTrackingEnabled
TrackingSettingsReadIgnoresFlag ==
    /\ cdStarting.getTrackingSettings > 0
    /\ IF cd.stream
       THEN /\ cd' = [cd EXCEPT !.stopTracking = TRUE]
            /\ live' = [live EXCEPT !.cdTrackers = @ + 1]
            /\ cdStarting' = [cdStarting EXCEPT !.getTrackingSettings = @ - 1,
                                                !.timeout = @ + 1]
       ELSE /\ cdStarting' = [cdStarting EXCEPT !.getTrackingSettings = @ - 1,
                                                !.getUserMedia = @ + 1]
            /\ UNCHANGED <<cd, live>>
    /\ UNCHANGED <<engineVars, sessionVars, settings, clock, sent, lastFrame, streakAlerts,
                   inflight, cdSent, starting, storage, lastMessage, cdInitFailed>>

\* getTrackingSettings resolves: initCameraDetection from line 265 to its
\* next await; startCamera returns at once when a stream is held (line 82)
TrackingSettingsRead ==
    /\ cdStarting.getTrackingSettings > 0
    /\ IF ~getTrackingSettings(storage).cameraTrackingEnabled
       THEN /\ cdStarting' = [cdStarting EXCEPT !.getTrackingSettings = @ - 1]
            /\ UNCHANGED <<cd, live>>
       ELSE IF cd.stream
       THEN /\ cd' = [cd EXCEPT !.stopTracking = TRUE]
            /\ live' = [live EXCEPT !.cdTrackers = @ + 1]
            /\ cdStarting' = [cdStarting EXCEPT !.getTrackingSettings = @ - 1,
                                                !.timeout = @ + 1]
       ELSE /\ cdStarting' = [cdStarting EXCEPT !.getTrackingSettings = @ - 1,
                                                !.getUserMedia = @ + 1]
            /\ UNCHANGED <<cd, live>>
    /\ UNCHANGED <<engineVars, sessionVars, settings, clock, sent, lastFrame, streakAlerts,
                   inflight, cdSent, starting, storage, lastMessage, cdInitFailed>>

\* the rest of an action of the content script
CdOnly ==
    UNCHANGED <<engineVars, sessionVars, settings, clock, sent, lastFrame, streakAlerts,
                inflight, cdSent, starting, storage, lastMessage>>

CdGetUserMediaResolves ==
    /\ cdStarting.getUserMedia > 0
    /\ cdStarting' = [cdStarting EXCEPT !.getUserMedia = @ - 1, !.play = @ + 1]
    /\ cd' = [cd EXCEPT !.stream = TRUE, !.videoElement = TRUE]
    /\ live' = [live EXCEPT !.cdStreams = @ + 1]
    /\ UNCHANGED cdInitFailed
    /\ CdOnly

CdGetUserMediaRejects ==
    /\ cdStarting.getUserMedia > 0
    /\ cdStarting' = [cdStarting EXCEPT !.getUserMedia = @ - 1]
    /\ cdInitFailed' = TRUE
    /\ UNCHANGED <<cd, live>>
    /\ CdOnly

\* play() resolves: initCameraDetection from line 278 to the timeout
CdPlayResolves ==
    /\ cdStarting.play > 0
    /\ IF cd.videoElement
       THEN /\ cd' = [cd EXCEPT !.stopTracking = TRUE]
            /\ live' = [live EXCEPT !.cdTrackers = @ + 1]
            /\ cdStarting' = [cdStarting EXCEPT !.play = @ - 1, !.timeout = @ + 1]
            /\ UNCHANGED cdInitFailed
       ELSE /\ cdStarting' = [cdStarting EXCEPT !.play = @ - 1]      \* throws at line 279
            /\ cdInitFailed' = TRUE
            /\ UNCHANGED <<cd, live>>
    /\ CdOnly

CdPlayRejects ==
    /\ cdStarting.play > 0
    /\ cdStarting' = [cdStarting EXCEPT !.play = @ - 1]
    /\ cdInitFailed' = TRUE
    /\ UNCHANGED <<cd, live>>
    /\ CdOnly

\* play() resolves and startFaceTracking throws: the inner catch stops the camera
CdStartFaceTrackingThrows ==
    /\ cdStarting.play > 0
    /\ cd.videoElement
    /\ cdStarting' = [cdStarting EXCEPT !.play = @ - 1]
    /\ cd' = cdStopCamera(cd)
    /\ live' = [live EXCEPT !.cdStreams = IF cd.stream THEN @ - 1 ELSE @]
    /\ cdInitFailed' = TRUE
    /\ CdOnly

CdTimeoutFires ==
    /\ cdStarting.timeout > 0
    /\ cdStarting' = [cdStarting EXCEPT !.timeout = @ - 1]
    /\ cd' = [cd EXCEPT !.isInitialized = TRUE]
    /\ UNCHANGED <<live, cdInitFailed>>
    /\ CdOnly

\* a call of initCameraDetection from elsewhere than the listener
InitCameraDetection ==
    /\ InitCameraDetectionCall
    /\ UNCHANGED <<engineVars, sessionVars, settings, clock, sent, lastFrame, streakAlerts,
                   inflight, cd, cdSent, starting, live, storage, lastMessage, cdInitFailed>>

shutdownCameraDetection(m) ==
    [cdStopCamera(m) EXCEPT !.stopTracking = FALSE, !.isInitialized = FALSE,
                            !.eyesClosedStartTime = Null,
                            !.currentAttentionState = "awake",
                            !.closedFrameCount = 0]

\* the settings s are saved and TRACKING_SETTINGS_UPDATED with payload s
\* reaches the listener (lines 340-350)
TrackingSettingsUpdated(s) ==
    /\ storage' = saveTrackingSettings(storage, s)
    /\ lastMessage' = <<s>>
    /\ IF s.cameraTrackingEnabled /\ ~cd.isInitialized
       THEN /\ InitCameraDetectionCall
            /\ UNCHANGED <<cd, live>>
       ELSE IF ~s.cameraTrackingEnabled /\ cd.isInitialized
       THEN /\ cd' = shutdownCameraDetection(cd)
            /\ live' = [live EXCEPT !.cdTrackers = IF cd.stopTracking THEN @ - 1 ELSE @,
                                    !.cdStreams = IF cd.stream THEN @ - 1 ELSE @]
            /\ UNCHANGED cdStarting
       ELSE UNCHANGED <<cd, live, cdStarting>>
    /\ UNCHANGED <<engineVars, sessionVars, settings, clock, sent, lastFrame, streakAlerts,
                   inflight, cdSent, starting, cdInitFailed>>

SettingsMessage == \E s \in TrackingSettingsValues : TrackingSettingsUpdated(s)

\* both hosts, each with its own lifecycle
InitLifecycle ==
    /\ InitModule
    /\ InitHost
    /\ settings \in { s \in AttentionSettingsValues :
                         s.enabled /\ s.detectors.drowsiness /\ s.detectors.microsleep
                         /\ s.thresholds.drowsySeconds < s.thresholds.microsleepSeconds }
    /\ clock \in ClockStarts
    /\ sent = <<>>
    /\ lastFrame = <<>>
    /\ streakAlerts = NoAlerts
    /\ inflight = <<>>

NextLifecycle ==
    \/ StartDetectionCall
    \/ GetUserMediaResolves
    \/ GetUserMediaRejects
    \/ PlayResolves
    \/ PlayRejects
    \/ StopDetectionCall
    \/ InitCameraDetection
    \/ SettingsMessage
    \/ TrackingSettingsRead
    \/ CdGetUserMediaResolves
    \/ CdGetUserMediaRejects
    \/ CdPlayResolves
    \/ CdPlayRejects
    \/ CdStartFaceTrackingThrows
    \/ CdTimeoutFires

SpecLifecycle == InitLifecycle /\ [][NextLifecycle]_vars

\* Any settings, but a clock that is never set back
NextMonotone ==
    \/ FaceFrame
    \/ NoFaceFrame
    \/ StartDetection
    \/ StopDetection
    \/ Tick

SpecMonotone == Init /\ [][NextMonotone]_vars

\* The same program while the tracker only delivers faces whose average EAR
\* is not below the threshold of the frame's settings snapshot
OpenFaceFrame ==
    \E lm \in LandmarksValues \ {Null}, s \in AttentionSettingsValues,
       r \in ReadingsFrom(clock) :
        /\ computeAverageEAR(lm.leftEyeEAR, lm.rightEyeEAR) >= s.thresholds.earThreshold
        /\ Frame(lm, s, r)

NextOpen ==
    \/ OpenFaceFrame
    \/ StartDetection
    \/ StopDetection
    \/ Tick
    \/ ClockSetBack

SpecOpen == Init /\ [][NextOpen]_vars

\* The tracker's callback is async: handleLandmarks runs up to its
\* `await getAttentionSettings()`, and the rest runs in a later task, when the
\* fetch has resolved. Other tasks (another callback, a STOP_DETECTION message)
\* may run in between. Nothing in handleLandmarks looks at isRunning or at
\* stopTracking after the await.
MaxInflight == 2    \* calls of handleLandmarks that may be awaiting their settings at once

\* handleLandmarks with the closedFrameCount++ of the no-face branch above the await
handleLandmarksBeforeAwaitCountsFirst(landmarks, count, start, state) ==
    [closedFrameCount |-> IF landmarks = Null THEN count + 1 ELSE count,
     eyesClosedStartTime |-> start,
     currentAttentionState |-> state]

\* the engine after the part of handleLandmarks that precedes the await:
\* frameCount++ and logging only
handleLandmarksBeforeAwait(landmarks, count, start, state) ==
    [closedFrameCount |-> count,
     eyesClosedStartTime |-> start,
     currentAttentionState |-> state]

\* which of the pending settings fetches resolves next: the oldest one
nextResolved(q) == 1

RemoveAt(q, i) == [j \in 1..(Len(q) - 1) |-> IF j < i THEN q[j] ELSE q[j + 1]]

\* the tracker invokes handleLandmarks(landmarks); the call runs up to the await
HandleLandmarksCall(landmarks) ==
    /\ stopTracking
    /\ Len(inflight) < MaxInflight
    /\ LET pre == handleLandmarksBeforeAwait(landmarks, closedFrameCount,
                                              eyesClosedStartTime, currentAttentionState)
       IN  /\ closedFrameCount' = pre.closedFrameCount
           /\ eyesClosedStartTime' = pre.eyesClosedStartTime
           /\ currentAttentionState' = pre.currentAttentionState
    /\ inflight' = Append(inflight, landmarks)
    /\ UNCHANGED <<sessionVars, settings, clock, sent, lastFrame, streakAlerts, hostVars>>

FaceCall == \E lm \in LandmarksValues \ {Null} : HandleLandmarksCall(lm)
NoFaceCall == HandleLandmarksCall(Null)

\* a pending fetch resolves and its call runs from the await to the end
HandleLandmarksResume ==
    /\ inflight # <<>>
    /\ \E r \in ReadingsFrom(clock) :
           Process(inflight[nextResolved(inflight)], settings, r)
    /\ inflight' = RemoveAt(inflight, nextResolved(inflight))
    /\ UNCHANGED hostVars

NextAsync ==
    \/ FaceCall
    \/ NoFaceCall
    \/ HandleLandmarksResume
    \/ StartDetection
    \/ StopDetection
    \/ Tick

SpecAsync == Init /\ [][NextAsync]_vars

\* What getAttentionSettings() may also produce: a rejected promise, or an object
\* without its thresholds or its detectors field. handleLandmarks validates
\* nothing: a missing field raises a TypeError where it is first read, and the
\* catch at the end of handleLandmarks only logs it.
FetchRejected == [rejected |-> TRUE]

\* the snapshot s with fields missing
MalformedSnapshots(s) ==
    {FetchRejected,
     [enabled |-> TRUE],
     [enabled |-> TRUE, detectors |-> s.detectors],
     [enabled |-> TRUE, thresholds |-> s.thresholds]}

Malformed(s) == {"enabled", "detectors", "thresholds"} \ DOMAIN s # {}

\* what the try block has done when the exception is raised
Thrown(count, start, state) ==
    [closedFrameCount |-> count, eyesClosedStartTime |-> start,
     closedDuration |-> Null, currentAttentionState |-> state, sent |-> <<>>]

\* handleLandmarks from the point where the fetch has settled with s, for any s
handleLandmarksUnchecked(landmarks, s, r, count, start, state) ==
    LET c == count + 1
        st == IF c >= MIN_CLOSED_FRAMES /\ start = Null THEN <<r[1]>> ELSE start
    IN  IF "rejected" \in DOMAIN s
        THEN Thrown(count, start, state)                         \* await throws
        ELSE IF ~Malformed(s)
        THEN handleLandmarks(landmarks, s, r, count, start, state)
        ELSE IF landmarks = Null
        THEN IF c < MIN_CLOSED_FRAMES
             THEN Thrown(c, start, state)                        \* returns normally, line 115
             ELSE IF "thresholds" \notin DOMAIN s
                  THEN Thrown(c, st, state)                      \* throws at line 101
                  ELSE handleNoFace(s, r, count, start, state)   \* never reads detectors
        ELSE IF "thresholds" \notin DOMAIN s
             THEN Thrown(count, start, state)                    \* throws at line 36
             ELSE LET ear == computeAverageEAR(landmarks.leftEyeEAR, landmarks.rightEyeEAR)
                  IN  IF Lt(ear, s.thresholds.earThreshold) /\ c >= MIN_CLOSED_FRAMES
                      THEN Thrown(c, st, state)                  \* throws at line 47
                      ELSE handleFace(landmarks, s, r, count, start, state)

\* one run of handleLandmarks whose fetch settles with any snapshot s
UncheckedFrame(landmarks, s, r) ==
    /\ stopTracking
    /\ r[4] <= MaxClock
    /\ LET res == handleLandmarksUnchecked(landmarks, s, r, closedFrameCount,
                                           eyesClosedStartTime, currentAttentionState)
       IN  /\ res.closedFrameCount <= MaxClosed
           /\ closedFrameCount' = res.closedFrameCount
           /\ eyesClosedStartTime' = res.eyesClosedStartTime
           /\ currentAttentionState' = res.currentAttentionState
           /\ sent' = res.sent
           /\ lastFrame' = <<[landmarks |-> landmarks,
                              closedFrameCount |-> closedFrameCount,
                              eyesClosedStartTime |-> eyesClosedStartTime,
                              currentAttentionState |-> currentAttentionState,
                              closedDuration |-> res.closedDuration,
                              inflight |-> inflight,
                              snapshot |-> s]>>
           /\ streakAlerts' = IF res.closedFrameCount = 0 THEN NoAlerts
                              ELSE CountAlerts(streakAlerts, res.sent)
    /\ clock' = r[4]
    /\ UNCHANGED <<sessionVars, settings, inflight, hostVars>>

\* the snapshot is the stored settings, or a malformed one
UncheckedFaceFrame ==
    \E lm \in LandmarksValues \ {Null}, s \in {settings} \cup MalformedSnapshots(settings),
       r \in ReadingsFrom(clock) : UncheckedFrame(lm, s, r)

UncheckedNoFaceFrame ==
    \E s \in {settings} \cup MalformedSnapshots(settings), r \in ReadingsFrom(clock) :
        UncheckedFrame(Null, s, r)

NextUnchecked ==
    \/ UncheckedFaceFrame
    \/ UncheckedNoFaceFrame
    \/ StartDetection
    \/ StopDetection
    \/ Tick

SpecUnchecked == Init /\ [][NextUnchecked]_vars

\* Landmarks whose EAR is not a valid ratio: NaN, or negative. handleLandmarks
\* passes whatever computeAverageEAR returns to determineAttentionState.
InvalidEarPairs == {<<NaN, 10>>, <<0 - 10, 0 - 10>>}
InvalidLandmarks == { [leftEyeEAR |-> p[1], rightEyeEAR |-> p[2]] : p \in InvalidEarPairs }

InvalidEarFrame ==
    \E lm \in InvalidLandmarks, r \in ReadingsFrom(clock) : Frame(lm, settings, r)

NextInvalidEar ==
    \/ InvalidEarFrame
    \/ FixedFaceFrame
    \/ FixedNoFaceFrame
    \/ StartDetection
    \/ StopDetection
    \/ Tick

SpecInvalidEar == Init /\ [][NextInvalidEar]_vars

\* The reference run: default thresholds, both detectors, the tracker calling
\* handleLandmarks 30 times a second, frame k at k/30 s after the first one
\* (frames are numbered from 0), eyes closed (EAR 0.1) on every frame up to
\* frame ScenarioClosedFrames - 1 and open (EAR 0.3) on the next one.
FramesPerSecond == 30
ScenarioClosedFrames == 180

ScenarioSettings ==
    [enabled |-> TRUE,
     detectors |-> [drowsiness |-> TRUE, microsleep |-> TRUE],
     thresholds |-> [earThreshold |-> 20, drowsySeconds |-> 2, microsleepSeconds |-> 5]]

ScenarioStart == CHOOSE t \in ClockStarts : TRUE
ScenarioTime(k) == ScenarioStart + (k * MsPerSecond) \div FramesPerSecond
\* the number of the frame that is due at the present clock
ScenarioFrameNo == CHOOSE k \in 0..(ScenarioClosedFrames + 2) : ScenarioTime(k) = clock

InitScenario ==
    /\ InitModule
    /\ InitHost
    /\ settings = ScenarioSettings
    /\ clock = ScenarioStart
    /\ sent = <<>>
    /\ lastFrame = <<>>
    /\ streakAlerts = NoAlerts
    /\ inflight = <<>>

ScenarioFrame(ear) ==
    /\ stopTracking
    /\ Apply([leftEyeEAR |-> ear, rightEyeEAR |-> ear], ScenarioSettings,
             [i \in 1..4 |-> clock], ScenarioTime(ScenarioFrameNo + 1))
    /\ UNCHANGED <<inflight, hostVars>>

ScenarioClosedFrame ==
    /\ ScenarioFrameNo < ScenarioClosedFrames
    /\ ScenarioFrame(10)

ScenarioOpenFrame ==
    /\ ScenarioFrameNo = ScenarioClosedFrames
    /\ ScenarioFrame(30)

NextScenario ==
    \/ StartDetection
    \/ ScenarioClosedFrame
    \/ ScenarioOpenFrame

SpecScenario == InitScenario /\ [][NextScenario]_vars

TypeOK ==
    /\ closedFrameCount \in 0..MaxClosed
    /\ currentAttentionState \in AttentionStates
    /\ settings \in AttentionSettingsValues
    /\ clock \in 0..MaxClock

----------------------------------------------------------------------------
\* Vocabulary of the properties

FrameRan == lastFrame # <<>>
LF == lastFrame[1]
LFNoFace == LF.landmarks = Null
LFEar == computeAverageEAR(LF.landmarks.leftEyeEAR, LF.landmarks.rightEyeEAR)
\* the latest frame counted as closed / as open under its settings snapshot
LFClosed == LFNoFace \/ LFEar < settings.thresholds.earThreshold
LFOpen == ~LFNoFace /\ LFEar >= settings.thresholds.earThreshold
Elevated(st) == st \in {"drowsy", "microsleep"}

\* this step is a run of handleLandmarks (FaceFrame or NoFaceFrame)
AnyFrame ==
    /\ lastFrame' # <<>>
    /\ \E r \in ReadingsFrom(clock) : Frame(lastFrame'[1].landmarks, settings', r)

OneAlert(msgs, st) == Len(Alerts(msgs)) = 1 /\ Alerts(msgs)[1].state = st
Ms(seconds) == seconds * MsPerSecond

\* a step that is an enabled frame counted as closed, with closedDuration computed
LatchedClosedStep ==
    /\ settings'.enabled
    /\ closedFrameCount' = closedFrameCount + 1
    /\ lastFrame' # <<>>
    /\ lastFrame'[1].closedDuration # Null
    /\ AnyFrame
\* the closedDuration of the frame of this step, and of the frame before it
DurNew == lastFrame'[1].closedDuration[1]
DurOld == lastFrame[1].closedDuration[1]
\* the frame of this step is the first of its streak with closedDuration >= ms
FirstAtLeast(ms) ==
    DurNew >= ms /\ (closedFrameCount < MIN_CLOSED_FRAMES \/ DurOld < ms)

----------------------------------------------------------------------------
\* C1: blink filtering.  While a closure streak is shorter than
\* MIN_CLOSED_FRAMES no closed-since timestamp is latched and the state is
\* awake, and no frame of such a streak, nor the frame that ends it, sends
\* an alert.
C1_BlinkFiltering ==
    /\ closedFrameCount < MIN_CLOSED_FRAMES =>
            eyesClosedStartTime = Null /\ currentAttentionState = "awake"
    /\ (FrameRan /\ LF.closedFrameCount < MIN_CLOSED_FRAMES - 1) => Alerts(sent) = <<>>

\* ten closed frames, then an open frame, as in the example of the spec
C1_Witness ==
    /\ FrameRan /\ settings.enabled /\ LFOpen
    /\ LF.closedFrameCount = 10
    /\ closedFrameCount = 0
    /\ eyesClosedStartTime = Null
    /\ currentAttentionState = "awake"

\* C10: a frame that finds the master flag off changes none of
\* closedFrameCount, eyesClosedStartTime and currentAttentionState and sends
\* nothing.
C10_DisabledFrameDoesNothing ==
    [][(~settings'.enabled /\ AnyFrame) => (UNCHANGED engineVars /\ sent' = <<>>)]_vars

\* a disabled frame in the middle of a latched closure
C10_Witness ==
    /\ FrameRan /\ ~settings.enabled
    /\ LF.closedFrameCount >= MIN_CLOSED_FRAMES
    /\ closedFrameCount = LF.closedFrameCount
    /\ eyesClosedStartTime = LF.eyesClosedStartTime /\ eyesClosedStartTime # Null
    /\ currentAttentionState = "drowsy"
    /\ sent = <<>>

\* C2: while every frame is a detected face whose average EAR is not below
\* the threshold, the state is awake after every frame and no alert is sent.
C2_OpenEyesStayAwake ==
    /\ currentAttentionState = "awake"
    /\ closedFrameCount = 0
    /\ Alerts(sent) = <<>>

C2_Witness ==
    /\ FrameRan /\ settings.enabled /\ LFOpen
    /\ LFEar = settings.thresholds.earThreshold
    /\ clock = 3000
    /\ Len(Updates(sent)) = 1

\* C3: settings fixed, drowsiness enabled.  A closed frame whose closedDuration
\* lies in [drowsySeconds, microsleepSeconds) leaves the state drowsy with
\* exactly one drowsy alert sent in the streak so far and no microsleep alert;
\* the alert is sent by the first such frame of the streak and by no later one.
C3_DrowsyOnce ==
    [][(/\ LatchedClosedStep
        /\ settings.detectors.drowsiness
        /\ DurNew >= Ms(settings.thresholds.drowsySeconds)
        /\ DurNew < Ms(settings.thresholds.microsleepSeconds))
       => (/\ currentAttentionState' = "drowsy"
           /\ streakAlerts' = [drowsy |-> 1, microsleep |-> 0]
           /\ IF FirstAtLeast(Ms(settings.thresholds.drowsySeconds))
              THEN OneAlert(sent', "drowsy")
              ELSE Alerts(sent') = <<>>)]_vars

\* a later frame of the drowsy streak: still drowsy, nothing sent again
C3_Witness ==
    /\ FrameRan /\ settings.enabled /\ settings.detectors.drowsiness
    /\ LF.currentAttentionState = "drowsy"
    /\ currentAttentionState = "drowsy"
    /\ closedFrameCount = LF.closedFrameCount + 1
    /\ streakAlerts = [drowsy |-> 1, microsleep |-> 0]
    /\ Alerts(sent) = <<>>

\* C4 as claimed: settings fixed, both detectors enabled, drowsySeconds <
\* microsleepSeconds.  A closed frame whose closedDuration is >= microsleepSeconds
\* leaves the state microsleep with exactly one drowsy and one microsleep alert
\* sent in the streak; the microsleep alert is sent by the first such frame.
C4_MicrosleepAfterDrowsy ==
    [][(/\ LatchedClosedStep
        /\ settings.detectors.drowsiness /\ settings.detectors.microsleep
        /\ settings.thresholds.drowsySeconds < settings.thresholds.microsleepSeconds
        /\ DurNew >= Ms(settings.thresholds.microsleepSeconds))
       => (/\ currentAttentionState' = "microsleep"
           /\ streakAlerts' = [drowsy |-> 1, microsleep |-> 1]
           /\ IF FirstAtLeast(Ms(settings.thresholds.microsleepSeconds))
              THEN OneAlert(sent', "microsleep")
              ELSE Alerts(sent') = <<>>)]_vars

\* C4 amended: as above, but the streak has at most one drowsy alert before the
\* microsleep alert: one exactly when the frame before the first frame with
\* closedDuration >= microsleepSeconds had a closedDuration >= drowsySeconds
\* (otherwise the streak went from below drowsySeconds past microsleepSeconds
\* between two frames and no drowsy alert was ever sent).
C4_MicrosleepOnce ==
    [][(/\ LatchedClosedStep
        /\ settings.detectors.drowsiness /\ settings.detectors.microsleep
        /\ settings.thresholds.drowsySeconds < settings.thresholds.microsleepSeconds
        /\ DurNew >= Ms(settings.thresholds.microsleepSeconds))
       => (/\ currentAttentionState' = "microsleep"
           /\ streakAlerts'.microsleep = 1
           /\ IF FirstAtLeast(Ms(settings.thresholds.microsleepSeconds))
              THEN /\ OneAlert(sent', "microsleep")
                   /\ streakAlerts'.drowsy =
                        IF closedFrameCount >= MIN_CLOSED_FRAMES
                           /\ DurOld >= Ms(settings.thresholds.drowsySeconds)
                        THEN 1 ELSE 0
              ELSE /\ Alerts(sent') = <<>>
                   /\ streakAlerts' = streakAlerts)]_vars

\* the microsleep alert of a streak that had its drowsy alert before
C4_Witness ==
    /\ FrameRan /\ settings.enabled
    /\ settings.detectors.drowsiness /\ settings.detectors.microsleep
    /\ settings.thresholds.drowsySeconds < settings.thresholds.microsleepSeconds
    /\ LF.currentAttentionState = "drowsy"
    /\ currentAttentionState = "microsleep"
    /\ streakAlerts = [drowsy |-> 1, microsleep |-> 1]
    /\ OneAlert(sent, "microsleep")

\* C5: an open frame that finds the state drowsy or microsleep leaves the
\* state awake, closedFrameCount 0 and no timestamp, sends no alert and
\* reports a closed duration of 0; and a timestamp is only ever held with at
\* least MIN_CLOSED_FRAMES closed frames counted.
C5_OpenFrameRecovers ==
    [][/\ (/\ Elevated(currentAttentionState)
           /\ settings'.enabled
           /\ lastFrame' # <<>>
           /\ lastFrame'[1].landmarks # Null
           /\ computeAverageEAR(lastFrame'[1].landmarks.leftEyeEAR,
                                 lastFrame'[1].landmarks.rightEyeEAR)
                >= settings'.thresholds.earThreshold
           /\ AnyFrame)
          => (/\ currentAttentionState' = "awake"
              /\ closedFrameCount' = 0
              /\ eyesClosedStartTime' = Null
              /\ Alerts(sent') = <<>>
              /\ Len(Updates(sent')) = 1
              /\ Updates(sent')[1].eyesClosedDuration = 0
              /\ Updates(sent')[1].state = "awake")
       /\ (eyesClosedStartTime' # Null => closedFrameCount' >= MIN_CLOSED_FRAMES)]_vars

\* a microsleep ended by one open frame
C5_Witness ==
    /\ FrameRan /\ settings.enabled /\ LFOpen
    /\ LF.currentAttentionState = "microsleep"
    /\ LF.eyesClosedStartTime # Null
    /\ currentAttentionState = "awake"
    /\ closedFrameCount = 0
    /\ eyesClosedStartTime = Null
    /\ Alerts(sent) = <<>>

\* C6: a frame sends an alert exactly when its new state is drowsy or
\* microsleep and differs from the state before the frame; the alert is a
\* single one and names the new state.  (Stated as: a step that does not
\* relate the states and the messages sent in this way is not a frame.)
C6_AlertOnlyOnRisingEdge ==
    [][~(IF Elevated(currentAttentionState')
            /\ currentAttentionState' # currentAttentionState
         THEN OneAlert(sent', currentAttentionState')
         ELSE Alerts(sent') = <<>>)
       => ~AnyFrame]_vars

\* a no-face frame that finds the state drowsy and recomputes drowsy
C6_Witness ==
    /\ FrameRan /\ settings.enabled /\ LFNoFace
    /\ LF.currentAttentionState = "drowsy"
    /\ LF.closedDuration # Null
    /\ LF.closedDuration[1] >= Ms(settings.thresholds.drowsySeconds)
    /\ LF.closedDuration[1] < Ms(settings.thresholds.microsleepSeconds)
    /\ closedFrameCount = LF.closedFrameCount + 1
    /\ currentAttentionState = "drowsy"
    /\ sent = <<>>

\* C7 as claimed: every frame that finds the master flag on sends exactly one
\* ATTENTION_UPDATE, carrying the new state and the closed duration, 0 when no
\* timestamp is held.
C7_UpdateEveryFrame ==
    [][(settings'.enabled /\ AnyFrame) =>
        /\ Len(Updates(sent')) = 1
        /\ Updates(sent')[1].state = currentAttentionState'
        /\ (eyesClosedStartTime' = Null => Updates(sent')[1].eyesClosedDuration = 0)]_vars

\* C8 as claimed: a no-face frame leaves the counters and the state, and sends
\* alerts for the states, that a detected face with closed eyes would have
\* left and sent in its place.
ClosedFace(s) ==
    CHOOSE lm \in LandmarksValues \ {Null} :
        computeAverageEAR(lm.leftEyeEAR, lm.rightEyeEAR) < s.thresholds.earThreshold
AlertStates(msgs) == [i \in 1..Len(Alerts(msgs)) |-> Alerts(msgs)[i].state]

C8_NoFaceLikeClosedEyes ==
    [][(settings'.enabled /\ lastFrame' # <<>> /\ lastFrame'[1].landmarks = Null /\ AnyFrame) =>
        \E r \in ReadingsFrom(clock) :
            LET f == handleLandmarks(ClosedFace(settings'), settings', r, closedFrameCount,
                                     eyesClosedStartTime, currentAttentionState)
            IN  /\ f.closedFrameCount = closedFrameCount'
                /\ f.eyesClosedStartTime = eyesClosedStartTime'
                /\ f.currentAttentionState = currentAttentionState'
                /\ AlertStates(f.sent) = AlertStates(sent')]_vars

\* C9 as claimed: a frame whose settings snapshot has a detector disabled does
\* not leave that detector's state and sends no alert for it.
C9_DisabledDetectorNeverFires ==
    [][(settings'.enabled /\ AnyFrame) =>
        /\ ~settings'.detectors.microsleep =>
                /\ currentAttentionState' # "microsleep"
                /\ \A i \in 1..Len(sent') : sent'[i].state # "microsleep"
        /\ ~settings'.detectors.drowsiness =>
                /\ currentAttentionState' # "drowsy"
                /\ \A i \in 1..Len(sent') : sent'[i].state # "drowsy"]_vars

----------------------------------------------------------------------------
\* C11: stopDetection resets the engine, and the engine stays reset while no
\* session runs: whenever detection is not running, closedFrameCount is 0,
\* eyesClosedStartTime is null and the state is awake, also when a call of
\* handleLandmarks of the stopped session was awaiting its settings at the stop.
C11_StopResetsEngine ==
    ~isRunning =>
        /\ closedFrameCount = 0
        /\ eyesClosedStartTime = Null
        /\ currentAttentionState = "awake"

----------------------------------------------------------------------------
----------------------------------------------------------------------------
\* C12: a frame whose settings snapshot is missing or malformed (the fetch
\* fails, or the thresholds or detectors field is absent) is skipped: the run
\* leaves closedFrameCount, eyesClosedStartTime and currentAttentionState as
\* they were and sends no alert, for a detected face and for no face alike.
C12_MalformedSnapshotSkipsFrame ==
    [][ (/\ lastFrame' # <<>>
         /\ lastFrame' # lastFrame
         /\ Malformed(lastFrame'[1].snapshot))
        => /\ UNCHANGED engineVars
           /\ Alerts(sent') = <<>> ]_vars

----------------------------------------------------------------------------
\* C13: a detected face whose EAR is invalid (NaN or negative) is treated as
\* no face: the frame counts as closed (closedFrameCount goes up by one, the
\* streak is not reset) and the state and the alerts are those that
\* handleLandmarks(null) would have produced in the same engine state.
C13_InvalidEarLikeNoFace ==
    [][ (/\ lastFrame' # <<>>
         /\ lastFrame'[1].landmarks \in InvalidLandmarks
         /\ settings.enabled
         /\ AnyFrame)
        => /\ closedFrameCount' = closedFrameCount + 1
           /\ \E r \in ReadingsFrom(clock) :
                 LET n == handleNoFace(settings, r, closedFrameCount,
                                       eyesClosedStartTime, currentAttentionState)
                 IN  /\ currentAttentionState' = n.currentAttentionState
                     /\ AlertStates(sent') = AlertStates(n.sent) ]_vars

----------------------------------------------------------------------------
\* The reference run when the timestamp is first latched on frame number
\* `first`: up to the frame before it the state is awake and nothing is
\* latched; on it the timestamp is latched at the frame's time, with duration
\* 0; from then on the timestamp stays, the state is drowsy from the first
\* frame whose duration is 2 s or more and microsleep from the first frame
\* whose duration is 5 s or more, each entered with exactly one alert; the
\* open frame returns to awake with duration 0 and no alert.
ScenarioRunsWithFirstLatchOn(first) ==
    FrameRan =>
        LET k == ScenarioFrameNo - 1       \* the frame just processed
            dur == ScenarioTime(k) - ScenarioTime(first)
            before == ScenarioTime(k - 1) - ScenarioTime(first)
        IN  IF k < ScenarioClosedFrames
            THEN /\ k < first =>
                        /\ currentAttentionState = "awake"
                        /\ eyesClosedStartTime = Null
                        /\ Alerts(sent) = <<>>
                 /\ k = first =>
                        /\ LF.eyesClosedStartTime = Null
                        /\ LF.closedDuration = <<0>>
                 /\ k >= first =>
                        /\ eyesClosedStartTime = <<ScenarioTime(first)>>
                        /\ LF.closedDuration = <<dur>>
                        /\ currentAttentionState =
                              IF dur >= Ms(5) THEN "microsleep"
                              ELSE IF dur >= Ms(2) THEN "drowsy" ELSE "awake"
                        /\ AlertStates(sent) =
                              IF dur >= Ms(5) /\ before < Ms(5) THEN <<"microsleep">>
                              ELSE IF dur >= Ms(2) /\ before < Ms(2) THEN <<"drowsy">>
                              ELSE <<>>
                        /\ streakAlerts = [drowsy |-> IF dur >= Ms(2) THEN 1 ELSE 0,
                                           microsleep |-> IF dur >= Ms(5) THEN 1 ELSE 0]
            ELSE /\ currentAttentionState = "awake"
                 /\ eyesClosedStartTime = Null
                 /\ closedFrameCount = 0
                 /\ Alerts(sent) = <<>>
                 /\ Len(Updates(sent)) = 1
                 /\ Updates(sent)[1].eyesClosedDuration = 0
                 /\ Updates(sent)[1].state = "awake"

\* C14 as stated: in the reference run frames 0 to 14 leave the state awake
\* with nothing latched, and frame 15 is the first frame on which the
\* timestamp is latched; drowsy with one alert at 2 s of latched duration,
\* microsleep with one alert at 5 s, awake with duration 0 on the open frame.
C14_FirstLatchOnFrame15 == ScenarioRunsWithFirstLatchOn(MIN_CLOSED_FRAMES)

\* C14 (amended): in the reference run frames 0 to 13 leave the state awake
\* with nothing latched, and frame 14, the 15th closed frame, is the first
\* frame on which the timestamp is latched (duration 0); the state becomes
\* drowsy with exactly one drowsy alert on the first frame whose latched
\* duration is at least 2 s, microsleep with exactly one microsleep alert on
\* the first frame whose latched duration is at least 5 s, and the following
\* open frame returns it to awake with duration 0 and no alert.
C14_FirstLatchOnFrame14 == ScenarioRunsWithFirstLatchOn(MIN_CLOSED_FRAMES - 1)

\* the open frame has been processed after the run had reached microsleep
C14_Witness ==
    /\ FrameRan
    /\ ScenarioFrameNo = ScenarioClosedFrames + 1
    /\ LF.landmarks.leftEyeEAR = 30
    /\ LF.currentAttentionState = "microsleep"
    /\ LF.eyesClosedStartTime = <<ScenarioTime(MIN_CLOSED_FRAMES - 1)>>
    /\ currentAttentionState = "awake"
    /\ settings = ScenarioSettings

----------------------------------------------------------------------------
\* C16: in every reachable state eyesClosedStartTime is set exactly when
\* closedFrameCount has reached MIN_CLOSED_FRAMES (so the frame that breaks
\* the streak, and a stop, clear it together with the count).
C16_LatchedIffDebounced ==
    (eyesClosedStartTime # Null) <=> (closedFrameCount >= MIN_CLOSED_FRAMES)

\* an open frame has just broken a latched streak that had reached drowsy
C16_Witness ==
    /\ FrameRan /\ settings.enabled /\ LFOpen
    /\ LF.closedFrameCount >= MIN_CLOSED_FRAMES
    /\ LF.eyesClosedStartTime # Null
    /\ LF.currentAttentionState = "drowsy"
    /\ closedFrameCount = 0
    /\ eyesClosedStartTime = Null
    /\ isRunning

----------------------------------------------------------------------------
\* C20: in every reachable state, a state of drowsy or microsleep implies that
\* eyesClosedStartTime is set and that closedFrameCount is at least
\* MIN_CLOSED_FRAMES.
C20_ElevatedImpliesLatched ==
    Elevated(currentAttentionState) =>
        /\ eyesClosedStartTime # Null
        /\ closedFrameCount >= MIN_CLOSED_FRAMES

\* a no-face frame has just raised the state to microsleep
C20_Witness ==
    /\ FrameRan /\ settings.enabled /\ LFNoFace
    /\ LF.currentAttentionState # "microsleep"
    /\ currentAttentionState = "microsleep"
    /\ eyesClosedStartTime # Null
    /\ closedFrameCount >= MIN_CLOSED_FRAMES
    /\ isRunning

----------------------------------------------------------------------------
\* the classifier of the closure duration: microsleep if that detector is on
\* and the latched duration has reached microsleepSeconds, else drowsy if that
\* detector is on and it has reached drowsySeconds, else awake (d is the
\* latched duration in milliseconds, Null when nothing is latched)
Classify(s, d) ==
    IF d # Null /\ s.detectors.microsleep /\ d[1] >= Ms(s.thresholds.microsleepSeconds)
    THEN "microsleep"
    ELSE IF d # Null /\ s.detectors.drowsiness /\ d[1] >= Ms(s.thresholds.drowsySeconds)
         THEN "drowsy"
         ELSE "awake"

\* C17: after every frame processed with the master flag on, with or without
\* a face and whatever the settings were on the frame before, the state is the
\* classifier's result for that frame's latched duration and settings.
C17_StateIsClassifierResult ==
    [][ (/\ lastFrame' # <<>>
         /\ settings'.enabled
         /\ currentAttentionState' # Classify(settings', lastFrame'[1].closedDuration))
        => ~AnyFrame ]_vars

----------------------------------------------------------------------------
\* C18: the timestamp is latched once per streak: a closed frame leaves it
\* null while the count is below MIN_CLOSED_FRAMES, sets it to the time of the
\* frame on which the count reaches MIN_CLOSED_FRAMES, and leaves it as it is
\* on every later closed frame of the streak; and, the clock never going
\* back, the closed duration of a frame of the streak is never less than the
\* one of the frame before, nor is the one reported in the update.
C18_LatchedOncePerStreak ==
    [][ (/\ lastFrame' # <<>>
         /\ settings'.enabled
         /\ closedFrameCount' = closedFrameCount + 1
         /\ ~ (/\ closedFrameCount' < MIN_CLOSED_FRAMES => eyesClosedStartTime' = Null
               /\ closedFrameCount' = MIN_CLOSED_FRAMES =>
                      eyesClosedStartTime = Null /\ eyesClosedStartTime' = <<clock>>
               /\ closedFrameCount' > MIN_CLOSED_FRAMES =>
                      /\ eyesClosedStartTime # Null
                      /\ eyesClosedStartTime' = eyesClosedStartTime
                      /\ lastFrame[1].closedDuration # Null => DurNew >= DurOld
                      /\ (Updates(sent) # <<>> /\ Updates(sent') # <<>>) =>
                            Updates(sent')[1].eyesClosedDuration
                                >= Updates(sent)[1].eyesClosedDuration))
        => ~AnyFrame ]_vars

\* the second frame after the latch: the timestamp is the one latched, and
\* the duration has grown
C18_Witness ==
    /\ FrameRan /\ settings.enabled /\ LFClosed
    /\ LF.closedFrameCount = MIN_CLOSED_FRAMES + 1
    /\ closedFrameCount = MIN_CLOSED_FRAMES + 2
    /\ LF.eyesClosedStartTime # Null
    /\ eyesClosedStartTime = LF.eyesClosedStartTime
    /\ LF.closedDuration # Null
    /\ LF.closedDuration[1] > 0

----------------------------------------------------------------------------
\* C19: tie-break. On a closed frame, with or without a face, whose latched
\* duration satisfies both thresholds while both detectors are on (also when
\* drowsySeconds equals microsleepSeconds), the state becomes microsleep,
\* never drowsy, and an alert of that frame is a microsleep alert.
C19_MicrosleepWinsTie ==
    [][ (/\ lastFrame' # <<>>
         /\ lastFrame'[1].closedDuration # Null
         /\ settings'.enabled
         /\ settings'.detectors.drowsiness /\ settings'.detectors.microsleep
         /\ DurNew >= Ms(settings'.thresholds.drowsySeconds)
         /\ DurNew >= Ms(settings'.thresholds.microsleepSeconds)
         /\ ~ (/\ currentAttentionState' = "microsleep"
               /\ \A i \in 1..Len(Alerts(sent')) :
                     Alerts(sent')[i].state = "microsleep"))
        => ~AnyFrame ]_vars

\* with drowsySeconds = microsleepSeconds, a no-face frame has taken the state
\* from awake to microsleep with one microsleep alert
C19_Witness ==
    /\ FrameRan /\ settings.enabled /\ LFNoFace
    /\ settings.detectors.drowsiness /\ settings.detectors.microsleep
    /\ settings.thresholds.drowsySeconds = settings.thresholds.microsleepSeconds
    /\ LF.closedDuration # Null
    /\ LF.closedDuration[1] >= Ms(settings.thresholds.microsleepSeconds)
    /\ LF.currentAttentionState = "awake"
    /\ currentAttentionState = "microsleep"
    /\ OneAlert(sent, "microsleep")

----------------------------------------------------------------------------
\* C21: the content-script detector and the offscreen document, given the
\* same frames, settings snapshots and clock readings from the initial state,
\* hold the same closedFrameCount, eyesClosedStartTime and
\* currentAttentionState after every frame and have sent the same messages.
C21_TwinsAgree ==
    /\ cd.closedFrameCount = closedFrameCount
    /\ cd.eyesClosedStartTime = eyesClosedStartTime
    /\ cd.currentAttentionState = currentAttentionState
    /\ cdSent = sent

\* both have gone from drowsy to microsleep on a no-face frame, with an alert
C21_Witness ==
    /\ FrameRan /\ settings.enabled /\ LFNoFace
    /\ LF.currentAttentionState = "drowsy"
    /\ cd.currentAttentionState = "microsleep"
    /\ currentAttentionState = "microsleep"
    /\ OneAlert(cdSent, "microsleep")
    /\ OneAlert(sent, "microsleep")
    /\ cd.closedFrameCount > MIN_CLOSED_FRAMES

----------------------------------------------------------------------------
\* C22: in each host at most one camera stream is open and at most one
\* tracker is running at any time, also when a second start arrives before
\* the first has finished, and a running tracker's stop handle is held.
C22_OneStreamOneTracker ==
    /\ live.streams <= 1
    /\ live.trackers <= 1
    /\ live.trackers > 0 => stopTracking
    /\ live.cdStreams <= 1
    /\ live.cdTrackers <= 1
    /\ live.cdTrackers > 0 => cd.stopTracking

----------------------------------------------------------------------------
\* C23: in the content script, when no initCameraDetection is in progress
\* and a TRACKING_SETTINGS_UPDATED message has arrived, detection is running
\* (isInitialized, tracker held) exactly when the latest message had
\* cameraTrackingEnabled; a disable message arriving during an
\* initialisation is not lost. (An initialisation that threw excuses
\* detection from running, nothing excuses it from being stopped.)
C23_RunningIffLastMessageEnabled ==
    (InProgress(cdStarting) = 0 /\ lastMessage # <<>>) =>
        IF lastMessage[1].cameraTrackingEnabled
        THEN cdInitFailed \/ (cd.isInitialized /\ cd.stopTracking)
        ELSE ~cd.isInitialized /\ ~cd.stopTracking

----------------------------------------------------------------------------
\* C24: a failed start releases the camera: in each host, when no start is
\* in progress and the running flag is false, no stream is held.
C24_FailedStartReleasesCamera ==
    /\ (InProgress(starting) = 0 /\ ~isRunning) => ~stream
    /\ (InProgress(cdStarting) = 0 /\ ~cd.isInitialized) => ~cd.stream

----------------------------------------------------------------------------
\* C25: the content script requests the camera, or starts a tracker on a
\* stream it holds, only in the step in which initCameraDetection reads the
\* tracking settings and only if these have cameraTrackingEnabled; with
\* nothing stored getTrackingSettings gives the defaults (web tracking on,
\* camera tracking off) and that step does nothing; and getTrackingSettings
\* gives the settings that were saved last.
C25_CameraOnlyWhenEnabled ==
    [][ /\ cdStarting'.getUserMedia > cdStarting.getUserMedia =>
              /\ cdStarting'.getTrackingSettings < cdStarting.getTrackingSettings
              /\ getTrackingSettings(storage).cameraTrackingEnabled
        /\ cdStarting'.getTrackingSettings < cdStarting.getTrackingSettings =>
              /\ live'.cdTrackers > live.cdTrackers =>
                    getTrackingSettings(storage).cameraTrackingEnabled
              /\ storage[SETTINGS_KEY] = <<>> =>
                    /\ getTrackingSettings(storage)
                          = [webTrackingEnabled |-> TRUE, cameraTrackingEnabled |-> FALSE]
                    /\ UNCHANGED <<cd, live>>
                    /\ InProgress(cdStarting') = InProgress(cdStarting) - 1
        /\ lastMessage' # <<>> => getTrackingSettings(storage') = lastMessage'[1]
      ]_vars

\* camera tracking alone has been saved, and an initialisation that read it
\* is now requesting the camera
C25_Witness ==
    /\ lastMessage = <<[webTrackingEnabled |-> FALSE, cameraTrackingEnabled |-> TRUE]>>
    /\ storage[SETTINGS_KEY] = lastMessage
    /\ cdStarting.getUserMedia > 0
    /\ cdStarting.getTrackingSettings = 0
    /\ ~cd.stream
====
